---- MODULE Spec2Model ----
(***************************************************************************)
(* Model of norse/torch/functional/stdp_sensor.py: the event driven STDP   *)
(* sensor step.  Tensor values are modelled element-wise as exact          *)
(* rationals <<numerator, denominator>> in lowest terms with a positive    *)
(* denominator; floating-point rounding is not modelled.  One or more      *)
(* simulation harnesses hold a sensor state each and call                  *)
(* stdp_sensor_step repeatedly, feeding the returned state to the next     *)
(* call.                                                                   *)
(***************************************************************************)
EXTENDS Integers, Sequences, FiniteSets, TLC

\* ---------------------------------------------------------------- bounds
MaxSteps == 2      \* calls made by one harness

\* ------------------------------------------------- element-wise arithmetic
Abs(n) == IF n < 0 THEN -n ELSE n

RECURSIVE GCD(_, _)
GCD(a, b) == IF b = 0 THEN a ELSE GCD(b, a % b)

Norm(n, d) ==
    LET g == GCD(Abs(n), Abs(d))
        sgn == IF d < 0 THEN -1 ELSE 1
    IN  <<(sgn * n) \div g, (sgn * d) \div g>>

R(n) == <<n, 1>>

Neg(x) == <<-x[1], x[2]>>

Mul(x, y) ==
    LET g1 == GCD(Abs(x[1]), y[2])
        g2 == GCD(Abs(y[1]), x[2])
    IN  <<(x[1] \div g1) * (y[1] \div g2), (x[2] \div g2) * (y[2] \div g1)>>

Add(x, y) ==
    LET g == GCD(x[2], y[2])
    IN  Norm(x[1] * (y[2] \div g) + y[1] * (x[2] \div g), (x[2] \div g) * y[2])

\* Order and magnitude of element values, as the properties compare them.
Le(x, y) ==
    LET g == GCD(x[2], y[2])
    IN  x[1] * (y[2] \div g) <= y[1] * (x[2] \div g)

Lt(x, y) == Le(x, y) /\ x # y

RAbs(x) == <<Abs(x[1]), x[2]>>

\* ------------------------------------------------------ records, defaults
DefaultEta    == R(1)
DefaultTauInv == <<10, 1>>
DefaultDt     == <<1, 1000>>

STDPSensorParameters(eta_p, eta_m, tau_ac_inv, tau_c_inv) ==
    [eta_p |-> eta_p, eta_m |-> eta_m,
     tau_ac_inv |-> tau_ac_inv, tau_c_inv |-> tau_c_inv]

STDPSensorState(a_pre, a_post) == [a_pre |-> a_pre, a_post |-> a_post]

ZeroState == STDPSensorState(R(0), R(0))

\* ------------------------------------------------------------ input sets
\* Spikes fed by a harness are the conventional 0/1 indicators.
ZSet     == {R(0), R(1)}
EtaSet   == {R(0), R(1)}
TauSet   == {R(0), R(2), R(4), DefaultTauInv}
TauAcSet == {R(1), DefaultTauInv}
TraceSet == {R(-1), R(0), R(1)}
DtSet    == {R(0), DefaultDt, <<1, 2>>, <<-1, 2>>}

\* Scaling constants for the spikes of a call.
KSet     == {R(-1), R(0), <<1, 2>>, R(1), R(2)}
\* ------------------------------------------- faulty variants of the step
\* The increment is added before the decay, so the increment decays too.
step_increment_first(z_pre, z_post, s, p, dt) ==
    LET a_pre_inc  == Add(s.a_pre, Mul(z_pre, p.eta_p))
        a_post_inc == Add(s.a_post, Mul(z_post, p.eta_m))
        a_pre_new  == Add(a_pre_inc, Mul(dt, Mul(p.tau_c_inv, Neg(a_pre_inc))))
        a_post_new == Add(a_post_inc, Mul(dt, Mul(p.tau_c_inv, Neg(a_post_inc))))
        dw         == Add(Mul(z_pre, a_pre_new), Mul(z_post, a_post_new))
    IN  <<dw, [a_pre |-> a_pre_new, a_post |-> a_post_new]>>

\* dw is computed from the traces of the input state.
step_dw_old_trace(z_pre, z_post, s, p, dt) ==
    LET a_pre_decayed  == Add(s.a_pre, Mul(dt, Mul(p.tau_c_inv, Neg(s.a_pre))))
        a_post_decayed == Add(s.a_post, Mul(dt, Mul(p.tau_c_inv, Neg(s.a_post))))
        a_pre_new      == Add(a_pre_decayed, Mul(z_pre, p.eta_p))
        a_post_new     == Add(a_post_decayed, Mul(z_post, p.eta_m))
        dw             == Add(Mul(z_pre, s.a_pre), Mul(z_post, s.a_post))
    IN  <<dw, [a_pre |-> a_pre_new, a_post |-> a_post_new]>>

\* The post trace decays with the anti-correlation time constant.
step_tau_ac(z_pre, z_post, s, p, dt) ==
    LET a_pre_decayed  == Add(s.a_pre, Mul(dt, Mul(p.tau_c_inv, Neg(s.a_pre))))
        a_post_decayed == Add(s.a_post, Mul(dt, Mul(p.tau_ac_inv, Neg(s.a_post))))
        a_pre_new      == Add(a_pre_decayed, Mul(z_pre, p.eta_p))
        a_post_new     == Add(a_post_decayed, Mul(z_post, p.eta_m))
        dw             == Add(Mul(z_pre, a_pre_new), Mul(z_post, a_post_new))
    IN  <<dw, [a_pre |-> a_pre_new, a_post |-> a_post_new]>>

\* The derivative has the wrong sign: the traces grow instead of decaying.
step_growth(z_pre, z_post, s, p, dt) ==
    LET a_pre_decayed  == Add(s.a_pre, Mul(dt, Mul(p.tau_c_inv, s.a_pre)))
        a_post_decayed == Add(s.a_post, Mul(dt, Mul(p.tau_c_inv, s.a_post)))
        a_pre_new      == Add(a_pre_decayed, Mul(z_pre, p.eta_p))
        a_post_new     == Add(a_post_decayed, Mul(z_post, p.eta_m))
        dw             == Add(Mul(z_pre, a_pre_new), Mul(z_post, a_post_new))
    IN  <<dw, [a_pre |-> a_pre_new, a_post |-> a_post_new]>>

\* dw is the sum of the new traces, not weighted by the spikes.
step_dw_unweighted(z_pre, z_post, s, p, dt) ==
    LET a_pre_decayed  == Add(s.a_pre, Mul(dt, Mul(p.tau_c_inv, Neg(s.a_pre))))
        a_post_decayed == Add(s.a_post, Mul(dt, Mul(p.tau_c_inv, Neg(s.a_post))))
        a_pre_new      == Add(a_pre_decayed, Mul(z_pre, p.eta_p))
        a_post_new     == Add(a_post_decayed, Mul(z_post, p.eta_m))
        dw             == Add(a_pre_new, a_post_new)
    IN  <<dw, [a_pre |-> a_pre_new, a_post |-> a_post_new]>>

\* The derivative is added without the time step.
step_no_dt(z_pre, z_post, s, p, dt) ==
    LET a_pre_decayed  == Add(s.a_pre, Mul(p.tau_c_inv, Neg(s.a_pre)))
        a_post_decayed == Add(s.a_post, Mul(p.tau_c_inv, Neg(s.a_post)))
        a_pre_new      == Add(a_pre_decayed, Mul(z_pre, p.eta_p))
        a_post_new     == Add(a_post_decayed, Mul(z_post, p.eta_m))
        dw             == Add(Mul(z_pre, a_pre_new), Mul(z_post, a_post_new))
    IN  <<dw, [a_pre |-> a_pre_new, a_post |-> a_post_new]>>

\* The spike is added to the trace without the gain eta.
step_no_eta(z_pre, z_post, s, p, dt) ==
    LET a_pre_decayed  == Add(s.a_pre, Mul(dt, Mul(p.tau_c_inv, Neg(s.a_pre))))
        a_post_decayed == Add(s.a_post, Mul(dt, Mul(p.tau_c_inv, Neg(s.a_post))))
        a_pre_new      == Add(a_pre_decayed, z_pre)
        a_post_new     == Add(a_post_decayed, z_post)
        dw             == Add(Mul(z_pre, a_pre_new), Mul(z_post, a_post_new))
    IN  <<dw, [a_pre |-> a_pre_new, a_post |-> a_post_new]>>

\* The post trace is incremented by the presynaptic spike.
step_cross_spike(z_pre, z_post, s, p, dt) ==
    LET a_pre_decayed  == Add(s.a_pre, Mul(dt, Mul(p.tau_c_inv, Neg(s.a_pre))))
        a_post_decayed == Add(s.a_post, Mul(dt, Mul(p.tau_c_inv, Neg(s.a_post))))
        a_pre_new      == Add(a_pre_decayed, Mul(z_pre, p.eta_p))
        a_post_new     == Add(a_post_decayed, Mul(z_pre, p.eta_m))
        dw             == Add(Mul(z_pre, a_pre_new), Mul(z_post, a_post_new))
    IN  <<dw, [a_pre |-> a_pre_new, a_post |-> a_post_new]>>

\* The increment is added to the undecayed trace: the decay is lost.
step_no_decay(z_pre, z_post, s, p, dt) ==
    LET a_pre_new  == Add(s.a_pre, Mul(z_pre, p.eta_p))
        a_post_new == Add(s.a_post, Mul(z_post, p.eta_m))
        dw         == Add(Mul(z_pre, a_pre_new), Mul(z_post, a_post_new))
    IN  <<dw, [a_pre |-> a_pre_new, a_post |-> a_post_new]>>

\* ------------------------------------------------------- stdp_sensor_step
stdp_sensor_step(z_pre, z_post, s, p, dt) ==
    LET da_pre         == Mul(p.tau_c_inv, Neg(s.a_pre))
        a_pre_decayed  == Add(s.a_pre, Mul(dt, da_pre))
        da_post        == Mul(p.tau_c_inv, Neg(s.a_post))
        a_post_decayed == Add(s.a_post, Mul(dt, da_post))
        a_pre_new      == Add(a_pre_decayed, Mul(z_pre, p.eta_p))
        a_post_new     == Add(a_post_decayed, Mul(z_post, p.eta_m))
        dw             == Add(Mul(z_pre, a_pre_new), Mul(z_post, a_post_new))
    IN  <<dw, STDPSensorState(a_pre_new, a_post_new)>>

\* ------------------------------------------------------------------ state
VARIABLES
    sims,    \* the harnesses that exist
    p,       \* the parameter record shared by all calls
    dt,      \* the integration time step passed to every call
    st0,     \* st0[i]: the state harness i started from
    st,      \* st[i]: the state harness i currently holds
    hist,    \* hist[i]: the spike inputs harness i has fed so far
    call,    \* the last call: its caller, arguments and results
    calls    \* every call made so far

vars == <<sims, p, dt, st0, st, hist, call, calls>>

NoCall ==
    [caller |-> 0, z_pre |-> R(0), z_post |-> R(0), s |-> ZeroState,
     p |-> STDPSensorParameters(DefaultEta, DefaultEta, DefaultTauInv, DefaultTauInv),
     dt |-> DefaultDt, dw |-> R(0), new |-> ZeroState]

Init ==
    /\ sims = {1}
    /\ p \in {STDPSensorParameters(ep, em, tac, tc) :
                ep \in EtaSet, em \in EtaSet, tac \in TauAcSet, tc \in TauSet}
    /\ dt \in DtSet
    /\ st0 \in [sims -> {STDPSensorState(a, b) : a \in TraceSet, b \in TraceSet}]
    /\ st = st0
    /\ hist = [i \in sims |-> <<>>]
    /\ call = NoCall
    /\ calls = {}

InitConc ==
    /\ sims = {1, 2}
    /\ p \in {STDPSensorParameters(DefaultEta, em, DefaultTauInv, R(1)) :
                em \in EtaSet}
    /\ dt = <<1, 2>>
    /\ st0 \in [sims -> {ZeroState, STDPSensorState(R(1), R(0))}]
    /\ st = st0
    /\ hist = [i \in sims |-> <<>>]
    /\ call = NoCall
    /\ calls = {}

\* A faulty harness step: the step keeps the last state it returned in a
\* module-level cache and decays that instead of the state it is given.
Step_cached(i) ==
    /\ Len(hist[i]) < MaxSteps
    /\ \E z_pre \in ZSet, z_post \in ZSet :
          LET r == stdp_sensor_step(z_pre, z_post,
                                    IF call.caller # 0 THEN call.new ELSE st[i],
                                    p, dt)
              c == [caller |-> i, z_pre |-> z_pre, z_post |-> z_post,
                    s |-> st[i], p |-> p, dt |-> dt,
                    dw |-> r[1], new |-> r[2]]
          IN  /\ st' = [st EXCEPT ![i] = r[2]]
              /\ hist' = [hist EXCEPT ![i] = Append(@, <<z_pre, z_post>>)]
              /\ call' = c
              /\ calls' = calls \cup {c}
    /\ UNCHANGED <<sims, p, dt, st0>>

\* Harness i calls stdp_sensor_step on the state it holds and keeps the
\* returned state for its next call.
Step(i) ==
    /\ Len(hist[i]) < MaxSteps
    /\ \E z_pre \in ZSet, z_post \in ZSet :
          LET r == stdp_sensor_step(z_pre, z_post, st[i], p, dt)
              c == [caller |-> i, z_pre |-> z_pre, z_post |-> z_post,
                    s |-> st[i], p |-> p, dt |-> dt,
                    dw |-> r[1], new |-> r[2]]
          IN  /\ st' = [st EXCEPT ![i] = r[2]]
              /\ hist' = [hist EXCEPT ![i] = Append(@, <<z_pre, z_post>>)]
              /\ call' = c
              /\ calls' = calls \cup {c}
    /\ UNCHANGED <<sims, p, dt, st0>>

Next == \E i \in sims : Step(i)

Spec == Init /\ [][Next]_vars

SpecConc == InitConc /\ [][Next]_vars

Called == call.caller # 0

\* dt * tau_c_inv, the fraction of a trace one step removes
DecayFraction == Mul(call.dt, call.p.tau_c_inv)

ZeroSpikes == call.z_pre = R(0) /\ call.z_post = R(0)

\* ------------------------------------------------------------------- C1
\* C1: every call returns a_pre_new = a_pre + dt*tau_c_inv*(-a_pre) +
\* z_pre*eta_p and a_post_new = a_post + dt*tau_c_inv*(-a_post) +
\* z_post*eta_m: the increment is added to the decayed trace and is not
\* decayed itself; a_pre = 1, a_post = 0, no spikes, tau_c_inv = 10,
\* dt = 0.001 gives (0.99, 0).
C1_DecayBeforeIncrement ==
    Called =>
      /\ call.new.a_pre =
           Add(Add(call.s.a_pre,
                   Mul(Mul(call.dt, call.p.tau_c_inv), Neg(call.s.a_pre))),
               Mul(call.z_pre, call.p.eta_p))
      /\ call.new.a_post =
           Add(Add(call.s.a_post,
                   Mul(Mul(call.dt, call.p.tau_c_inv), Neg(call.s.a_post))),
               Mul(call.z_post, call.p.eta_m))
      /\ st[call.caller] = call.new
      /\ ( /\ call.s = STDPSensorState(R(1), R(0))
           /\ ZeroSpikes
           /\ call.p.tau_c_inv = R(10)
           /\ call.dt = <<1, 1000>>
           => call.new = STDPSensorState(<<99, 100>>, R(0)) )

\* A spike arrives on a nonzero, decaying pre trace: 1 - 0.01 + 1 = 1.99.
C1_Witness ==
    /\ Called
    /\ call.s.a_pre = R(1)
    /\ call.z_pre = R(1)
    /\ call.p.eta_p = R(1)
    /\ call.p.tau_c_inv = R(10)
    /\ call.dt = <<1, 1000>>
    /\ call.new.a_pre = <<199, 100>>

\* ------------------------------------------------------------------- C2
\* C2: the returned dw is z_pre * a_pre_new + z_post * a_post_new, with the
\* updated traces of the state the same call returns; from the zero state
\* with z_pre = 1, z_post = 0, eta_p = eta_m = 1: dw = 1, new_state = (1, 0).
C2_WeightChangeFromNewTraces ==
    Called =>
      /\ call.dw = Add(Mul(call.z_pre, st[call.caller].a_pre),
                       Mul(call.z_post, st[call.caller].a_post))
      /\ st[call.caller] = call.new
      /\ ( /\ call.s = ZeroState
           /\ call.z_pre = R(1) /\ call.z_post = R(0)
           /\ call.p.eta_p = R(1) /\ call.p.eta_m = R(1)
           => call.dw = R(1) /\ call.new = STDPSensorState(R(1), R(0)) )

\* A presynaptic spike on a nonzero, decaying state: dw is the new pre
\* trace, which differs from the old pre trace and from the new post trace.
C2_Witness ==
    /\ Called
    /\ call.z_pre = R(1) /\ call.z_post = R(0)
    /\ call.s.a_pre # R(0)
    /\ call.dw = call.new.a_pre
    /\ call.dw # call.s.a_pre
    /\ call.dw # call.new.a_post
    /\ call.dw # call.s.a_post

\* ------------------------------------------------------------------- C3
\* C3: a call whose inputs differ from the last call's only in
\* params.tau_ac_inv returns the same dw and the same new state.
C3_TauAcInvUnused ==
    Called =>
      \A t \in TauAcSet \cup {R(0)} :
         stdp_sensor_step(call.z_pre, call.z_post, call.s,
                          [call.p EXCEPT !.tau_ac_inv = t], call.dt)
           = <<call.dw, call.new>>

\* Both traces decayed, under a tau_ac_inv that differs from tau_c_inv.
C3_Witness ==
    /\ Called
    /\ call.p.tau_ac_inv # call.p.tau_c_inv
    /\ call.s.a_pre # R(0) /\ call.s.a_post # R(0)
    /\ call.new.a_pre # call.s.a_pre
    /\ call.new.a_post # call.s.a_post

\* ------------------------------------------------------------------- C6
\* C6: with dt = 0 the new traces are a_pre + z_pre*eta_p and
\* a_post + z_post*eta_m whatever tau_c_inv is, so with zero spikes the
\* state is returned unchanged.
C6_ZeroDtNoDecay ==
    (Called /\ call.dt = R(0)) =>
      /\ call.new.a_pre = Add(call.s.a_pre, Mul(call.z_pre, call.p.eta_p))
      /\ call.new.a_post = Add(call.s.a_post, Mul(call.z_post, call.p.eta_m))
      /\ (ZeroSpikes => call.new = call.s)
      /\ \A t \in TauSet :
            stdp_sensor_step(call.z_pre, call.z_post, call.s,
                             [call.p EXCEPT !.tau_c_inv = t], call.dt)[2]
              = call.new

\* dt = 0 with a nonzero tau_c_inv and nonzero traces.
C6_Witness ==
    /\ Called
    /\ call.dt = R(0)
    /\ call.p.tau_c_inv # R(0)
    /\ call.s.a_pre # R(0) /\ call.s.a_post # R(0)
    /\ call.z_pre = R(1) /\ call.p.eta_p = R(1)
    /\ call.new.a_pre = Add(call.s.a_pre, R(1))

\* ------------------------------------------------------------------- C9
\* Other values <<spike, trace, gain>> for the channel a trace does not
\* belong to: each differs from every value a harness feeds in at least
\* one component, and the four differ from each other in all three.
OtherChannel ==
    { <<R(-1), R(0), R(2)>>, <<R(0), <<1, 2>>, R(0)>>,
      <<R(1), R(-1), R(1)>>, <<R(2), R(3), <<1, 2>>>> }

\* C9: a_pre_new does not change when z_post, a_post and eta_m of the call
\* change, and a_post_new does not change when z_pre, a_pre and eta_p
\* change.
C9_TracesIndependent ==
    Called =>
      \A alt \in OtherChannel :
         /\ stdp_sensor_step(call.z_pre, alt[1],
                             [call.s EXCEPT !.a_post = alt[2]],
                             [call.p EXCEPT !.eta_m = alt[3]],
                             call.dt)[2].a_pre = call.new.a_pre
         /\ stdp_sensor_step(alt[1], call.z_post,
                             [call.s EXCEPT !.a_pre = alt[2]],
                             [call.p EXCEPT !.eta_p = alt[3]],
                             call.dt)[2].a_post = call.new.a_post

\* The two channels got different inputs and ended in different traces.
C9_Witness ==
    /\ Called
    /\ call.z_pre # call.z_post
    /\ call.s.a_pre # call.s.a_post
    /\ call.p.eta_p # call.p.eta_m
    /\ call.new.a_pre # call.new.a_post
    /\ call.new.a_pre # call.s.a_pre
    /\ call.new.a_post # call.s.a_post

\* ------------------------------------------------------------------- C4
\* C4 as stated: with zero spikes and nonzero tau_c_inv, for every dt and
\* tau_c_inv, |a_new| <= |a_old| for each trace, with equality only when
\* tau_c_inv = 0 or dt = 0.
C4_Original ==
    (Called /\ ZeroSpikes /\ call.p.tau_c_inv # R(0)) =>
      /\ Le(RAbs(call.new.a_pre), RAbs(call.s.a_pre))
      /\ Le(RAbs(call.new.a_post), RAbs(call.s.a_post))
      /\ (RAbs(call.new.a_pre) = RAbs(call.s.a_pre)
            => call.p.tau_c_inv = R(0) \/ call.dt = R(0))
      /\ (RAbs(call.new.a_post) = RAbs(call.s.a_post)
            => call.p.tau_c_inv = R(0) \/ call.dt = R(0))

StableStep == Le(R(0), DecayFraction) /\ Le(DecayFraction, R(2))

AllZeroSpikes(i) ==
    \A n \in 1..Len(hist[i]) : hist[i][n] = <<R(0), R(0)>>

\* C4 amended: with zero spikes, nonzero tau_c_inv and
\* 0 <= dt*tau_c_inv <= 2, |a_new| <= |a_old| for each trace, with equality
\* only when the trace is 0, dt = 0 or dt*tau_c_inv = 2; so along a sequence
\* of zero-spike steps the trace magnitude does not increase.
C4_DecayWhenStable ==
    (Called /\ ZeroSpikes /\ call.p.tau_c_inv # R(0) /\ StableStep) =>
      /\ Le(RAbs(call.new.a_pre), RAbs(call.s.a_pre))
      /\ Le(RAbs(call.new.a_post), RAbs(call.s.a_post))
      /\ (RAbs(call.new.a_pre) = RAbs(call.s.a_pre)
            => \/ call.s.a_pre = R(0)
               \/ call.dt = R(0)
               \/ DecayFraction = R(2))
      /\ (RAbs(call.new.a_post) = RAbs(call.s.a_post)
            => \/ call.s.a_post = R(0)
               \/ call.dt = R(0)
               \/ DecayFraction = R(2))
      /\ \A i \in sims :
            AllZeroSpikes(i) =>
              /\ Le(RAbs(st[i].a_pre), RAbs(st0[i].a_pre))
              /\ Le(RAbs(st[i].a_post), RAbs(st0[i].a_post))

\* Two zero-spike steps in a row shrank both nonzero traces strictly.
C4_Witness ==
    /\ Called /\ ZeroSpikes /\ StableStep
    /\ call.p.tau_c_inv # R(0)
    /\ Len(hist[call.caller]) = 2
    /\ AllZeroSpikes(call.caller)
    /\ Lt(R(0), RAbs(call.new.a_pre))
    /\ Lt(RAbs(call.new.a_pre), RAbs(call.s.a_pre))
    /\ Lt(RAbs(call.s.a_pre), RAbs(st0[call.caller].a_pre))
    /\ Lt(RAbs(call.new.a_post), RAbs(call.s.a_post))

\* ------------------------------------------------------------------- C7
\* C7 as stated: with eta_p = eta_m = 0, for every spike input, dt and
\* tau_c_inv, |a_pre_new| <= |a_pre| and |a_post_new| <= |a_post|, and the
\* new traces are those of a call with zero spikes.
C7_Original ==
    (Called /\ call.p.eta_p = R(0) /\ call.p.eta_m = R(0)) =>
      /\ Le(RAbs(call.new.a_pre), RAbs(call.s.a_pre))
      /\ Le(RAbs(call.new.a_post), RAbs(call.s.a_post))
      /\ call.new = stdp_sensor_step(R(0), R(0), call.s, call.p, call.dt)[2]

\* C7 amended: with eta_p = eta_m = 0 the new traces are, for every spike
\* input, dt and tau_c_inv, those of a call with zero spikes; and when
\* 0 <= dt*tau_c_inv <= 2, |a_pre_new| <= |a_pre| and
\* |a_post_new| <= |a_post|.
C7_ZeroGainOnlyDecays ==
    (Called /\ call.p.eta_p = R(0) /\ call.p.eta_m = R(0)) =>
      /\ call.new = stdp_sensor_step(R(0), R(0), call.s, call.p, call.dt)[2]
      /\ StableStep =>
           /\ Le(RAbs(call.new.a_pre), RAbs(call.s.a_pre))
           /\ Le(RAbs(call.new.a_post), RAbs(call.s.a_post))

\* Both spikes arrive with zero gains on nonzero, decaying traces.
C7_Witness ==
    /\ Called
    /\ call.p.eta_p = R(0) /\ call.p.eta_m = R(0)
    /\ call.z_pre = R(1) /\ call.z_post = R(1)
    /\ StableStep
    /\ Lt(RAbs(call.new.a_pre), RAbs(call.s.a_pre))
    /\ Lt(RAbs(call.new.a_post), RAbs(call.s.a_post))

\* ------------------------------------------------------------------- C5
\* C5 as stated: from the zero state, scaling both spikes by k scales dw
\* by k.
C5_Original ==
    (Called /\ call.s = ZeroState) =>
      \A k \in KSet :
         stdp_sensor_step(Mul(k, call.z_pre), Mul(k, call.z_post),
                          ZeroState, call.p, call.dt)[1]
           = Mul(k, call.dw)

\* C5 amended: from the zero state, scaling both spikes by k scales the
\* new traces by k and dw by k*k.
C5_QuadraticInSpikes ==
    (Called /\ call.s = ZeroState) =>
      \A k \in KSet :
         LET r == stdp_sensor_step(Mul(k, call.z_pre), Mul(k, call.z_post),
                                   ZeroState, call.p, call.dt)
         IN  /\ r[1] = Mul(Mul(k, k), call.dw)
             /\ r[2].a_pre = Mul(k, call.new.a_pre)
             /\ r[2].a_post = Mul(k, call.new.a_post)

\* A call from the zero state with both spikes and a nonzero dw.
C5_Witness ==
    /\ Called
    /\ call.s = ZeroState
    /\ call.z_pre = R(1) /\ call.z_post = R(1)
    /\ call.p.eta_p = R(1) /\ call.p.eta_m = R(1)
    /\ call.dw = R(2)

\* ------------------------------------------------------------------ C10
BinarySpikes(i) ==
    \A n \in 1..Len(hist[i]) :
       hist[i][n][1] \in {R(0), R(1)} /\ hist[i][n][2] \in {R(0), R(1)}

\* C10: starting from the zero state, with eta_p, eta_m >= 0,
\* 0 < dt*tau_c_inv <= 1 and 0/1 spikes, every state reached by repeated
\* stepping has 0 <= a_pre <= eta_p/(dt*tau_c_inv) and
\* 0 <= a_post <= eta_m/(dt*tau_c_inv), every dw is >= 0, and dw = 0 on a
\* step without spikes.
C10_BoundedTraces ==
    \A i \in sims :
       ( /\ st0[i] = ZeroState
         /\ Le(R(0), p.eta_p) /\ Le(R(0), p.eta_m)
         /\ Lt(R(0), Mul(dt, p.tau_c_inv)) /\ Le(Mul(dt, p.tau_c_inv), R(1))
         /\ BinarySpikes(i) )
       =>
         /\ Le(R(0), st[i].a_pre)
         /\ Le(Mul(st[i].a_pre, Mul(dt, p.tau_c_inv)), p.eta_p)
         /\ Le(R(0), st[i].a_post)
         /\ Le(Mul(st[i].a_post, Mul(dt, p.tau_c_inv)), p.eta_m)
         /\ (call.caller = i =>
               /\ Le(R(0), call.dw)
               /\ (ZeroSpikes => call.dw = R(0)))

\* Two presynaptic spikes in a row with dt*tau_c_inv = 1 leave the pre trace
\* at its bound eta_p, and a positive dw.
C10_Witness ==
    /\ Called
    /\ st0[call.caller] = ZeroState
    /\ Mul(dt, p.tau_c_inv) = R(1)
    /\ p.eta_p = R(1)
    /\ hist[call.caller] = << <<R(1), R(0)>>, <<R(1), R(0)>> >>
    /\ st[call.caller].a_pre = R(1)
    /\ call.dw = R(1)

\* ------------------------------------------------------------------- C8
SameInputs(c, d) ==
    /\ c.z_pre = d.z_pre /\ c.z_post = d.z_post
    /\ c.s = d.s /\ c.p = d.p /\ c.dt = d.dt

\* The state a harness reaches when it runs alone from s on the inputs h.
RECURSIVE Alone(_, _)
Alone(s, h) ==
    IF h = <<>> THEN s
    ELSE Alone(stdp_sensor_step(h[1][1], h[1][2], s, p, dt)[2], Tail(h))

====
